---- MODULE Spec2Model ----
(***************************************************************************)
(* Model of mining_monitor.py: the NVMLWrapper gateway over the vendor     *)
(* driver (reached through ctypes), the one-shot system view, the          *)
(* continuous monitor loop, the configuration session and the main menu.   *)
(*                                                                         *)
(* Conventions                                                             *)
(*  - A line of text is a sequence of one-character strings.               *)
(*  - Python's None is the empty sequence, a present value v is <<v>>.     *)
(*  - A power figure in watts (power_usage.value / 1000, a float) is kept  *)
(*    as the exact number of thousandths of a watt.                        *)
(*  - A ctypes call into the driver returns the driver's status code and   *)
(*    raises nothing; the code never reads that status.  A call can raise  *)
(*    only inside ctypes itself (for instance the symbol is missing from   *)
(*    the library); the model keeps that outcome for the one call the code *)
(*    guards against it, nvmlDeviceGetPowerUsage.                          *)
(*  - gpus, reads, totalPower, writes, out, answers are the locals and the *)
(*    printed lines of the operation in progress; they keep their last     *)
(*    value when the operation returns (pc = "returned") and are dropped   *)
(*    when main() loops back and prints the menu again.                    *)
(***************************************************************************)
EXTENDS Integers, Sequences, FiniteSets

VARIABLES
    pc,           \* where main() is: "menu", "monitor", "cfg_select",
                  \* "cfg_mem", "cfg_power", "returned", "exited", "crashed"
    libFound,     \* find_library("nvidia-ml") finds the driver library
    deviceCount,  \* the count nvmlDeviceGetCount_v2 reports
    initCount,    \* number of nvmlInit_v2 calls made by this process
    listed,       \* list_gpus() has run in the current/last operation
    reads,        \* driver outcomes of the power reads of that list_gpus()
    gpus,         \* the list list_gpus() returned
    totalPower,   \* total_power computed by the last view, None if none
    monState,     \* "Idle", "Running", "Rendered", "Stopped"
    key,          \* key the operator typed while the monitor runs
    choice,       \* configure_gpu: choice (0-based), None before selection
    handle,       \* configure_gpu: handle resolved for the selected device
    answers,      \* configure_gpu: the lines input() returned, in order
    writes,       \* configure_gpu: the driver write calls issued, in order
    out           \* lines printed by the current/last operation

vars == <<pc, libFound, deviceCount, initCount, listed, reads, gpus,
          totalPower, monState, key, choice, handle, answers, writes, out>>

----------------------------------------------------------------------------
(* Bounds and program constants *)

MaxDevices == 2

MaxInits == 2

MilliPerUnit == 1000

\* A c_uint holds 32 bits, kept here as two 16-bit halves.
HalfWord == 65536

None == << >>

Some(v) == << v >>

Digits == {"0", "1", "2", "3"}

\* Lines the operator may give at a prompt of the configuration session.
InputLines ==
    { << >>, <<" ">>, <<"0">>, <<"1">>, <<"2">>, <<"3">>, <<"-", "1">>,
      <<"a">>, <<" ", "2", " ">>, <<"1", "a">>, <<"-">>, <<"1", "0">> }

\* Lines the operator may give at the main menu.
MenuLines == { <<"1">>, <<"2">>, <<"3">>, <<"4">>, <<" ", "1">>, <<"x">> }

\* Milliwatt values a successful power read may deliver.
PowerReadings == {1500, 2500}

\* Outcome of one nvmlDeviceGetPowerUsage call: the driver succeeds and
\* stores a reading, the driver returns an error status and stores nothing,
\* or the call raises inside ctypes.
PowerReadOutcomes ==
    [status : {"SUCCESS"}, mw : PowerReadings]
        \cup [status : {"ERROR", "RAISED"}, mw : {0}]

\* Status a driver write call may return.
WriteStatuses == {"SUCCESS", "ERROR"}

DeviceNames == <<"GPU-A", "GPU-B", "GPU-C", "GPU-D">>

DeviceName(idx) == DeviceNames[idx + 1]

DeviceHandleFirst(idx) == [device |-> 0]

\* nvmlDeviceGetHandleByIndex_v2: the opaque handle of device idx.
DeviceHandle(idx) == [device |-> idx]

----------------------------------------------------------------------------
(* str.strip() and int() *)

RECURSIVE LStrip(_)
LStrip(s) ==
    IF s # << >> /\ Head(s) = " " THEN LStrip(Tail(s)) ELSE s

RECURSIVE RStrip(_)
RStrip(s) ==
    IF s # << >> /\ s[Len(s)] = " " THEN RStrip(SubSeq(s, 1, Len(s) - 1)) ELSE s

StripNothing(s) == s

Strip(s) == RStrip(LStrip(s))

DigitValue(c) ==
    CASE c = "0" -> 0 [] c = "1" -> 1 [] c = "2" -> 2 [] c = "3" -> 3

AllDigits(s) == s # << >> /\ \A i \in 1..Len(s) : s[i] \in Digits

RECURSIVE DecimalValue(_)
DecimalValue(s) ==
    IF s = << >> THEN 0
    ELSE 10 * DecimalValue(SubSeq(s, 1, Len(s) - 1)) + DigitValue(s[Len(s)])

PyIntZeroOnError(s) ==
    LET t == Strip(s) IN
    IF t # << >> /\ Head(t) = "-" /\ AllDigits(Tail(t))
        THEN [ok |-> TRUE, val |-> 0 - DecimalValue(Tail(t))]
    ELSE IF AllDigits(t)
        THEN [ok |-> TRUE, val |-> DecimalValue(t)]
    ELSE [ok |-> TRUE, val |-> 0]

\* int(text): surrounding whitespace is ignored, an optional sign is
\* followed by decimal digits; anything else raises ValueError (ok = FALSE).
PyInt(s) ==
    LET t == Strip(s) IN
    IF t # << >> /\ Head(t) = "-" /\ AllDigits(Tail(t))
        THEN [ok |-> TRUE, val |-> 0 - DecimalValue(Tail(t))]
    ELSE IF AllDigits(t)
        THEN [ok |-> TRUE, val |-> DecimalValue(t)]
    ELSE [ok |-> FALSE, val |-> 0]

----------------------------------------------------------------------------
(* NVMLWrapper *)

\* get_power_usage: the c_uint buffer starts at 0 and the driver fills it
\* only on success; the status is not read; None only when the call raises.
GetPowerUsage(o) ==
    IF o.status = "RAISED" THEN None
    ELSE Some(IF o.status = "SUCCESS" THEN o.mw ELSE 0)

\* list_gpus: one record per index 0..count-1, in order.
ListGpus(n, rd) ==
    [i \in 1..n |-> [id |-> i - 1,
                     name |-> DeviceName(i - 1),
                     power_usage |-> GetPowerUsage(rd[i])]]

\* c_uint(x): x modulo 2^32, as its high and low 16-bit halves.
CUint(x) == [hi |-> (x \div HalfWord) % HalfWord, lo |-> x % HalfWord]

\* set_power_limit: c_uint(limit * 1000).
PowerLimitArg(limit) == CUint(limit * MilliPerUnit)

SetPowerLimit(h, limit, status) ==
    [call |-> "nvmlDeviceSetPowerManagementLimit", handle |-> h,
     args |-> <<PowerLimitArg(limit)>>, status |-> status]

\* set_memory_frequency: the same frequency for both clock domains.
SetMemoryFrequency(h, freq, status) ==
    [call |-> "nvmlDeviceSetApplicationsClocks", handle |-> h,
     args |-> <<freq, freq>>, status |-> status]

----------------------------------------------------------------------------
(* Printed lines *)

Msg(text) == [text |-> text, value |-> 0, name |-> ""]

MsgVal(text, v) == [text |-> text, value |-> v, name |-> ""]

MsgName(text, n) == [text |-> text, value |-> 0, name |-> n]

PowerStr(p) == IF p # None THEN "W" ELSE "N/A"

MenuText ==
    <<Msg("Mining Rig Management Tool"), Msg("1. View System Information"),
      Msg("2. Monitor Resource Usage"), Msg("3. Configure GPU Settings"),
      Msg("4. Exit")>>

----------------------------------------------------------------------------
(* Total power of a device list *)

RECURSIVE SystemInfoTotalStopsAtAbsent(_)
SystemInfoTotalStopsAtAbsent(g) ==
    IF g = << >> \/ Head(g).power_usage = None THEN 0
    ELSE Head(g).power_usage[1] + SystemInfoTotalStopsAtAbsent(Tail(g))

\* get_system_info: total_power = 0; add every power_usage that is not None.
RECURSIVE SystemInfoTotal(_)
SystemInfoTotal(g) ==
    IF g = << >> THEN 0
    ELSE (IF Head(g).power_usage # None THEN Head(g).power_usage[1] ELSE 0)
             + SystemInfoTotal(Tail(g))

\* monitor_resources: the same accumulation, once per tick.
RECURSIVE MonitorTotal(_)
MonitorTotal(g) ==
    IF g = << >> THEN 0
    ELSE (IF Head(g).power_usage # None THEN Head(g).power_usage[1] ELSE 0)
             + MonitorTotal(Tail(g))

----------------------------------------------------------------------------
(* Initial state: main() has printed the menu and waits for a choice *)

Init ==
    /\ pc = "menu"
    /\ libFound \in BOOLEAN
    /\ deviceCount \in 0..MaxDevices
    /\ initCount = 0
    /\ listed = FALSE
    /\ reads = << >>
    /\ gpus = << >>
    /\ totalPower = None
    /\ monState = "Idle"
    /\ key = "none"
    /\ choice = None
    /\ handle = None
    /\ answers = << >>
    /\ writes = << >>
    /\ out = MenuText

----------------------------------------------------------------------------
(* main(): the menu reads a choice and dispatches on the exact text *)

\* while True: the operation has returned, its locals are gone, the menu is
\* printed and main() waits for the next choice.
MainLoop ==
    /\ pc = "returned"
    /\ pc' = "menu"
    /\ listed' = FALSE
    /\ reads' = << >>
    /\ gpus' = << >>
    /\ totalPower' = None
    /\ monState' = "Idle"
    /\ key' = "none"
    /\ choice' = None
    /\ handle' = None
    /\ answers' = << >>
    /\ writes' = << >>
    /\ out' = MenuText
    /\ UNCHANGED <<libFound, deviceCount, initCount>>

\* One table row per device: the power column is a figure or "N/A".
SystemInfoRows(g) ==
    [i \in 1..Len(g) |-> MsgName("GPU", PowerStr(g[i].power_usage))]

\* Choice "1": get_system_info().  A failure to construct the wrapper is
\* caught and reported as a warning; otherwise the driver is initialised,
\* the devices are listed and the total is computed and printed.
ViewSystemInfo ==
    /\ pc = "menu"
    /\ \E line \in MenuLines : line = <<"1">>
    /\ pc' = "returned"
    /\ UNCHANGED <<libFound, deviceCount, monState, key, choice, handle,
                   answers, writes>>
    /\ \/ /\ ~libFound
          /\ UNCHANGED <<listed, reads, gpus, totalPower>>
          /\ out' = <<Msg("Warning: Could not retrieve GPU information:")>>
          /\ UNCHANGED initCount
       \/ /\ libFound
          /\ initCount < MaxInits
          /\ initCount' = initCount + 1
          /\ \E rd \in [1..deviceCount -> PowerReadOutcomes] :
                LET g == ListGpus(deviceCount, rd) IN
                /\ listed' = TRUE
                /\ reads' = rd
                /\ gpus' = g
                /\ totalPower' = Some(SystemInfoTotal(g))
                /\ out' = <<Msg("System Information:"), Msg("GPU Information:")>>
                            \o SystemInfoRows(g)
                            \o <<Msg("Total GPU Power Consumption:")>>

\* Choice "2": monitor_resources() up to the head of its loop.  The wrapper
\* is constructed outside the try block, so a missing library ends main().
StartMonitor ==
    /\ pc = "menu"
    /\ \E line \in MenuLines : line = <<"2">>
    /\ out' = <<Msg("Monitoring Resources (Press Ctrl+C to exit):")>>
    /\ UNCHANGED <<libFound, deviceCount, listed, reads, gpus, totalPower,
                   key, choice, handle, answers, writes>>
    /\ \/ /\ ~libFound
          /\ pc' = "crashed"
          /\ UNCHANGED <<initCount, monState>>
       \/ /\ libFound
          /\ initCount < MaxInits
          /\ initCount' = initCount + 1
          /\ pc' = "monitor"
          /\ monState' = "Running"

\* Choice "4".
ExitMenu ==
    /\ pc = "menu"
    /\ \E line \in MenuLines : line = <<"4">>
    /\ pc' = "exited"
    /\ out' = <<Msg("Exiting...")>>
    /\ UNCHANGED <<libFound, deviceCount, initCount, listed, reads, gpus,
                   totalPower, monState, key, choice, handle, answers, writes>>

\* Any other text, " 1" included: the choice is compared without stripping.
InvalidMenuChoice ==
    /\ pc = "menu"
    /\ \E line \in MenuLines :
          line \notin {<<"1">>, <<"2">>, <<"3">>, <<"4">>}
    /\ out' = <<Msg("Invalid choice. Please try again.")>>
    /\ pc' = "returned"
    /\ UNCHANGED <<libFound, deviceCount, initCount, listed, reads, gpus,
                   totalPower, monState, key, choice, handle, answers, writes>>

----------------------------------------------------------------------------
(* monitor_resources(): the loop *)

MonitorRows(g) ==
    [i \in 1..Len(g) |-> MsgName("GPU Power", PowerStr(g[i].power_usage))]

MonitorQuitsOnQ(k) == IF k = "q" THEN "Stopped" ELSE "Rendered"

\* State of the loop after one pass of its body, given the key the operator
\* has typed: the body holds no read of the keyboard.
AfterTick(k) == "Rendered"

\* One pass of the loop body: sample, list the devices, clear the screen,
\* compute the total, print the table.
MonitorTick ==
    /\ pc = "monitor"
    /\ monState = "Running"
    /\ \E rd \in [1..deviceCount -> PowerReadOutcomes] :
          LET g == ListGpus(deviceCount, rd) IN
          /\ listed' = TRUE
          /\ reads' = rd
          /\ gpus' = g
          /\ totalPower' = Some(MonitorTotal(g))
          /\ out' = <<Msg("Resource Usage:")>> \o MonitorRows(g)
                      \o <<Msg("Total GPU Power")>>
    /\ monState' = AfterTick(key)
    /\ UNCHANGED <<pc, libFound, deviceCount, initCount, key, choice, handle,
                   answers, writes>>

\* while True: back to the head of the loop.
MonitorLoop ==
    /\ pc = "monitor"
    /\ monState = "Rendered"
    /\ monState' = "Running"
    /\ UNCHANGED <<pc, libFound, deviceCount, initCount, listed, reads, gpus,
                   totalPower, key, choice, handle, answers, writes, out>>

\* Ctrl+C anywhere in the loop: KeyboardInterrupt is caught, the function
\* returns to the menu.
MonitorInterrupt ==
    /\ pc = "monitor"
    /\ monState' = "Stopped"
    /\ pc' = "returned"
    /\ out' = Append(out, Msg("Exiting resource monitoring."))
    /\ UNCHANGED <<libFound, deviceCount, initCount, listed, reads, gpus,
                   totalPower, key, choice, handle, answers, writes>>

\* The operator types 'q' or 'c' while the monitor runs.  The loop holds no
\* read of the keyboard, so the key only sits in the terminal.
OperatorKey ==
    /\ pc = "monitor"
    /\ key = "none"
    /\ \E k \in {"q", "c"} : key' = k
    /\ UNCHANGED <<pc, libFound, deviceCount, initCount, listed, reads, gpus,
                   totalPower, monState, choice, handle, answers, writes, out>>

----------------------------------------------------------------------------
(* configure_gpu(): one action per stretch of code between two prompts *)

ListingRows(g) ==
    [i \in 1..Len(g) |-> MsgVal("listing", g[i].id + 1)]

\* Choice "3": configure_gpu() up to the selection prompt.  Nothing catches
\* the RuntimeError of a missing library here.
StartConfigure ==
    /\ pc = "menu"
    /\ \E line \in MenuLines : line = <<"3">>
    /\ UNCHANGED <<libFound, deviceCount, totalPower, monState, key, choice,
                   handle, answers, writes>>
    /\ \/ /\ ~libFound
          /\ pc' = "crashed"
          /\ UNCHANGED <<initCount, listed, reads, gpus, out>>
       \/ /\ libFound
          /\ initCount < MaxInits
          /\ initCount' = initCount + 1
          /\ pc' = "cfg_select"
          /\ \E rd \in [1..deviceCount -> PowerReadOutcomes] :
                LET g == ListGpus(deviceCount, rd) IN
                /\ listed' = TRUE
                /\ reads' = rd
                /\ gpus' = g
                /\ out' = <<Msg("Available GPUs:")>> \o ListingRows(g)

SelectionNotShifted(n) == n

\* choice = int(input(...)) - 1
SelectionIndex(n) == n - 1

\* 0 <= choice < len(gpus)
ValidChoice(c, n) == 0 <= c /\ c < n

\* The selection prompt.  int() of a non-numeric line raises ValueError,
\* which neither configure_gpu nor main catches.
ConfigureSelect ==
    /\ pc = "cfg_select"
    /\ \E line \in InputLines :
          LET parsed == PyInt(line)
              c == SelectionIndex(parsed.val) IN
          /\ answers' = Append(answers, line)
          /\ IF ~parsed.ok
                THEN /\ pc' = "crashed"
                     /\ UNCHANGED <<choice, handle, out>>
             ELSE IF ValidChoice(c, Len(gpus))
                THEN /\ pc' = "cfg_mem"
                     /\ choice' = Some(c)
                     /\ handle' = Some(DeviceHandle(gpus[c + 1].id))
                     /\ UNCHANGED out
             ELSE /\ pc' = "returned"
                  /\ choice' = Some(c)
                  /\ out' = Append(out, Msg("Invalid selection."))
                  /\ UNCHANGED handle
    /\ UNCHANGED <<libFound, deviceCount, initCount, listed, reads, gpus,
                   totalPower, monState, key, writes>>

\* The memory-frequency prompt: strip; empty keeps the setting; otherwise
\* int(), the write, the report; ValueError keeps the setting.
ConfigureMemory ==
    /\ pc = "cfg_mem"
    /\ \E line \in InputLines, status \in WriteStatuses :
          LET text == Strip(line)
              parsed == PyInt(text) IN
          /\ answers' = Append(answers, line)
          /\ IF text = << >>
                THEN /\ out' = Append(out, Msg("Keeping current memory frequency setting"))
                     /\ UNCHANGED writes
             ELSE IF parsed.ok
                THEN /\ writes' = Append(writes,
                                         SetMemoryFrequency(handle[1], parsed.val, status))
                     /\ out' = Append(out, MsgVal("Memory Frequency updated to", parsed.val))
             ELSE /\ out' = Append(out,
                            Msg("Invalid memory frequency value. Keeping current setting."))
                  /\ UNCHANGED writes
    /\ pc' = "cfg_power"
    /\ UNCHANGED <<libFound, deviceCount, initCount, listed, reads, gpus,
                   totalPower, monState, key, choice, handle>>

\* The power-limit prompt, the same way, then the completion line.
ConfigurePower ==
    /\ pc = "cfg_power"
    /\ \E line \in InputLines, status \in WriteStatuses :
          LET text == Strip(line)
              parsed == PyInt(text)
              done == MsgName("Configuration complete for", gpus[choice[1] + 1].name) IN
          /\ answers' = Append(answers, line)
          /\ IF text = << >>
                THEN /\ out' = out \o <<Msg("Keeping current power limit setting"), done>>
                     /\ UNCHANGED writes
             ELSE IF parsed.ok
                THEN /\ writes' = Append(writes,
                                         SetPowerLimit(handle[1], parsed.val, status))
                     /\ out' = out \o <<MsgVal("Power limit updated to", parsed.val), done>>
             ELSE /\ out' = out \o
                        <<Msg("Invalid power limit value. Keeping current setting."), done>>
                  /\ UNCHANGED writes
    /\ pc' = "returned"
    /\ UNCHANGED <<libFound, deviceCount, initCount, listed, reads, gpus,
                   totalPower, monState, key, choice, handle>>

----------------------------------------------------------------------------

Next ==
    \/ MainLoop
    \/ ViewSystemInfo
    \/ StartMonitor
    \/ StartConfigure
    \/ ExitMenu
    \/ InvalidMenuChoice
    \/ MonitorTick
    \/ MonitorLoop
    \/ MonitorInterrupt
    \/ OperatorKey
    \/ ConfigureSelect
    \/ ConfigureMemory
    \/ ConfigurePower

Spec == Init /\ [][Next]_vars

----------------------------------------------------------------------------
(* Vocabulary of the properties, stated without the code's own parsing *)

RECURSIVE SumFn(_, _)
SumFn(f, S) ==
    IF S = {} THEN 0
    ELSE LET x == CHOOSE y \in S : TRUE IN f[x] + SumFn(f, S \ {x})

\* Sum of the readings that are present in a device list.
SumPresent(g) ==
    LET present == {i \in 1..Len(g) : g[i].power_usage # None} IN
    SumFn([i \in present |-> g[i].power_usage[1]], present)

\* Empty or whitespace-only.
IsBlank(line) == \A i \in 1..Len(line) : line[i] = " "

RECURSIVE Pow10(_)
Pow10(k) == IF k = 0 THEN 1 ELSE 10 * Pow10(k - 1)

NumberValue(ds) ==
    SumFn([i \in 1..Len(ds) |-> DigitValue(ds[i]) * Pow10(Len(ds) - i)],
          1..Len(ds))

OnlyDigits(ds) == Len(ds) >= 1 /\ \A i \in 1..Len(ds) : ds[i] \in Digits

SignedDigits(core) ==
    \/ OnlyDigits(core)
    \/ Len(core) >= 2 /\ core[1] = "-" /\ OnlyDigits(Tail(core))

\* Positions i..j of the line hold a signed numeral, all else is spaces.
NumeralAt(line, i, j) ==
    /\ i <= j
    /\ \A k \in 1..Len(line) : (k < i \/ k > j) => line[k] = " "
    /\ SignedDigits(SubSeq(line, i, j))

\* The line is a decimal integer, possibly padded with spaces.
IsNumeric(line) ==
    \E i, j \in 1..Len(line) : NumeralAt(line, i, j)

LineValue(line) ==
    LET ij == CHOOSE p \in (1..Len(line)) \X (1..Len(line)) :
                  NumeralAt(line, p[1], p[2])
        core == SubSeq(line, ij[1], ij[2]) IN
    IF core[1] = "-" THEN 0 - NumberValue(Tail(core)) ELSE NumberValue(core)

\* The session has read a selection that is a number k in 1..N.
ValidSelection ==
    /\ Len(answers) >= 1
    /\ IsNumeric(answers[1])
    /\ LineValue(answers[1]) \in 1..deviceCount

MemoryWrites ==
    {i \in 1..Len(writes) : writes[i].call = "nvmlDeviceSetApplicationsClocks"}

PowerWrites ==
    {i \in 1..Len(writes) : writes[i].call = "nvmlDeviceSetPowerManagementLimit"}

Printed(m) == \E i \in 1..Len(out) : out[i] = m

PrintedText(t) == \E i \in 1..Len(out) : out[i].text = t

LastPrinted == out[Len(out)]

----------------------------------------------------------------------------
(* Properties *)

\* C1: whenever a view (the one-shot view or a tick of the monitor) has
\* computed a total for the device list the driver returned, that total is
\* the sum of exactly the readings that are present; it is 0 when the list
\* is empty or holds no present reading.
C1_TotalIsSumOfPresent ==
    totalPower # None =>
        /\ listed
        /\ totalPower[1] = SumPresent(gpus)
        /\ (\A i \in 1..Len(gpus) : gpus[i].power_usage = None) => totalPower[1] = 0

\* C1 witness: the one-shot view has returned for two devices, the first
\* reading present, the second absent, and the total is the first alone.
C1_Witness ==
    /\ pc = "returned"
    /\ monState = "Idle"
    /\ Len(gpus) = 2
    /\ gpus[1].power_usage = Some(1500)
    /\ gpus[2].power_usage = None
    /\ totalPower = Some(1500)

\* C2: after list_gpus the list has exactly N records with ids 0..N-1 in
\* order, and a record's power usage is absent exactly when its power read
\* failed.
C2_FailedReadIsAbsent ==
    listed =>
        /\ Len(gpus) = deviceCount
        /\ \A i \in 1..Len(gpus) :
              /\ gpus[i].id = i - 1
              /\ (reads[i].status # "SUCCESS") <=> (gpus[i].power_usage = None)

\* C3: a session with a valid selection and blank answers to both the
\* memory-clock and the power-limit prompt issues no write, reports that
\* both settings are kept and reports completion.
C3_BlankKeepsBoth ==
    /\ (ValidSelection /\ Len(answers) >= 2 /\ IsBlank(answers[2])) =>
          /\ MemoryWrites = {}
          /\ Printed(Msg("Keeping current memory frequency setting"))
    /\ (ValidSelection /\ Len(answers) = 3
            /\ IsBlank(answers[2]) /\ IsBlank(answers[3])) =>
          /\ writes = << >>
          /\ pc = "returned"
          /\ SubSeq(out, Len(out) - 2, Len(out)) =
                <<Msg("Keeping current memory frequency setting"),
                  Msg("Keeping current power limit setting"),
                  MsgName("Configuration complete for",
                          DeviceName(LineValue(answers[1]) - 1))>>

\* C3 witness: device 1 selected, a whitespace-only memory answer, an empty
\* power answer, the session complete with nothing written.
C3_Witness ==
    /\ pc = "returned"
    /\ answers = << <<"1">>, <<" ">>, << >> >>
    /\ writes = << >>
    /\ LastPrinted = MsgName("Configuration complete for", "GPU-A")

\* C4: a numeric selection outside 1..N is reported as invalid, no further
\* answer is read, nothing is written and the session is over.
C4_OutOfRangeSelection ==
    (Len(answers) >= 1 /\ IsNumeric(answers[1])
        /\ LineValue(answers[1]) \notin 1..deviceCount) =>
            /\ pc = "returned"
            /\ Len(answers) = 1
            /\ writes = << >>
            /\ handle = None
            /\ LastPrinted = Msg("Invalid selection.")

\* C4 witness: two devices, selection "0", the session ended as invalid.
C4_Witness ==
    /\ deviceCount = 2
    /\ answers = << <<"0">> >>
    /\ pc = "returned"
    /\ LastPrinted = Msg("Invalid selection.")

\* C5: with a valid selection, a non-numeric answer for a field causes no
\* write for that field and is reported as invalid with the setting kept;
\* the session goes on: the power prompt follows a bad memory answer, a
\* numeric answer in the other field is written, and completion naming the
\* selected device is reported.
C5_BadValueKeepsField ==
    LET bad(line) == ~IsBlank(line) /\ ~IsNumeric(line)
        done == MsgName("Configuration complete for",
                        DeviceName(LineValue(answers[1]) - 1))
    IN
    /\ (ValidSelection /\ Len(answers) >= 2 /\ bad(answers[2])) =>
          /\ MemoryWrites = {}
          /\ Printed(Msg("Invalid memory frequency value. Keeping current setting."))
          /\ ~PrintedText("Memory Frequency updated to")
          /\ pc \in {"cfg_power", "returned"}
    /\ (ValidSelection /\ Len(answers) = 3 /\ bad(answers[3])) =>
          /\ PowerWrites = {}
          /\ Printed(Msg("Invalid power limit value. Keeping current setting."))
          /\ ~PrintedText("Power limit updated to")
    /\ (ValidSelection /\ Len(answers) = 3
            /\ (bad(answers[2]) \/ bad(answers[3]))) =>
          /\ pc = "returned"
          /\ LastPrinted = done
          /\ IsNumeric(answers[2]) =>
                /\ Cardinality(MemoryWrites) = 1
                /\ \A i \in MemoryWrites :
                      writes[i].args = <<LineValue(answers[2]), LineValue(answers[2])>>
          /\ IsNumeric(answers[3]) =>
                /\ Cardinality(PowerWrites) = 1
                /\ \A i \in PowerWrites :
                      writes[i].args = <<CUint(LineValue(answers[3]) * MilliPerUnit)>>

\* C5 witness: device 1 selected, memory answer "a", power answer "2": one
\* write, the power limit, and the session complete.
C5_Witness ==
    /\ pc = "returned"
    /\ answers = << <<"1">>, <<"a">>, <<"2">> >>
    /\ Len(writes) = 1
    /\ writes[1].call = "nvmlDeviceSetPowerManagementLimit"
    /\ Printed(Msg("Invalid memory frequency value. Keeping current setting."))
    /\ LastPrinted = MsgName("Configuration complete for", "GPU-A")

\* C6: a power-limit write the driver rejected is never reported as
\* "Power limit updated".
C6_RejectionSurfaced ==
    \A i \in PowerWrites :
        writes[i].status # "SUCCESS" => ~PrintedText("Power limit updated to")

\* C7: the driver is initialised exactly once in the life of the process,
\* and before any other driver call.
C7_InitOnce ==
    /\ initCount <= 1
    /\ listed => initCount >= 1

C9_NonNumericSelection ==
    (Len(answers) >= 1 /\ ~IsNumeric(answers[1])) =>
        /\ pc = "returned"
        /\ writes = << >>
        /\ LastPrinted = Msg("Invalid selection.")

\* C10: with a valid selection k every write goes to the handle of device
\* k-1; there is at most one memory-clock write and at most one power-limit
\* write, and the memory-clock write comes first.
C10_WritesTargetSelection ==
    /\ writes # << >> => ValidSelection
    /\ ValidSelection =>
          /\ \A i \in 1..Len(writes) :
                writes[i].handle = [device |-> LineValue(answers[1]) - 1]
          /\ Cardinality(MemoryWrites) <= 1
          /\ Cardinality(PowerWrites) <= 1
          /\ \A i \in MemoryWrites, j \in PowerWrites : i < j

\* C10 witness: device 2 of two selected, both values given, two writes.
C10_Witness ==
    /\ deviceCount = 2
    /\ answers = << <<" ", "2", " ">>, <<"3">>, <<"-", "1">> >>
    /\ Len(writes) = 2
    /\ writes[1].call = "nvmlDeviceSetApplicationsClocks"
    /\ writes[2].call = "nvmlDeviceSetPowerManagementLimit"
    /\ writes[1].handle = [device |-> 1]
    /\ writes[2].handle = [device |-> 1]
    /\ writes[2].args = <<[hi |-> 65535, lo |-> 64536]>>

====
